---- MODULE Spec2Model ----
(***************************************************************************)
(* Model of the image generation pipeline: ImageGenerationClient           *)
(* (src/src/client.py) and ImageGenerationService                          *)
(* (src/src/search_service.py).                                            *)
(*                                                                         *)
(* Python strings are sequences of one-character strings.  A path is a     *)
(* sequence of components, each component a sequence of strings.  Every    *)
(* method is an operator that returns the SET of its possible completions, *)
(* one for each answer the environment (provider, HTTP server, operating   *)
(* system, clock) can give at the places where the method asks it.         *)
(***************************************************************************)
EXTENDS Integers, Sequences, FiniteSets, TLC

VARIABLES fs, held, pc, call

vars == <<fs, held, pc, call>>

----------------------------------------------------------------------------
(* Bounds of the model *)

\* longest prompt among the enumerated short prompts
MaxShortPrompt == 4

\* number of distinct image contents the download endpoint can serve
NumContents == 2

----------------------------------------------------------------------------
(* Python values and strings *)

\* An Optional[T] value is a set with at most one element: None is the empty
\* set and a present value x is {x}.
None == {}

Some(x) == {x}

the(o) == CHOOSE x \in o : TRUE

\* Python truthiness of an Optional[str]
truthy(o) == o # None /\ o # Some("")

UpperLetters ==
  <<"A","B","C","D","E","F","G","H","I","J","K","L","M",
    "N","O","P","Q","R","S","T","U","V","W","X","Y","Z">>

LowerLetters ==
  <<"a","b","c","d","e","f","g","h","i","j","k","l","m",
    "n","o","p","q","r","s","t","u","v","w","x","y","z">>

DigitChars == <<"0","1","2","3","4","5","6","7","8","9">>

Range(f) == {f[i] : i \in DOMAIN f}

\* str.lower() on one character
lower_char(c) ==
  IF \E i \in 1..26 : UpperLetters[i] = c
  THEN LowerLetters[CHOOSE i \in 1..26 : UpperLetters[i] = c]
  ELSE c

\* str.lower()
lower(s) == [i \in 1..Len(s) |-> lower_char(s[i])]

\* str.isspace() on one character
isspace(c) == c \in {" ", "\t", "\n"}

\* str.strip()
strip(s) ==
  LET n == Len(s)
  IN  IF \A i \in 1..n : isspace(s[i])
      THEN <<>>
      ELSE LET first == CHOOSE i \in 1..n :
                          ~isspace(s[i]) /\ \A j \in 1..(i-1) : isspace(s[j])
               cut   == CHOOSE k \in 0..(n-1) :
                          ~isspace(s[n-k]) /\ \A j \in (n-k+1)..n : isspace(s[j])
           IN  SubSeq(s, first, n - cut)

\* the Python test  term in text
contains(text, term) ==
  \E i \in 0..(Len(text) - Len(term)) :
     \A j \in 1..Len(term) : text[i + j] = term[j]

\* str.rstrip('_')
rstrip_underscore(s) ==
  LET n == Len(s)
  IN  IF \A i \in 1..n : s[i] = "_"
      THEN <<>>
      ELSE LET cut == CHOOSE k \in 0..(n-1) :
                        s[n-k] # "_" /\ \A j \in (n-k+1)..n : s[j] = "_"
           IN  SubSeq(s, 1, n - cut)

\* the regular expression class \w
is_word_char(c) ==
  c \in Range(LowerLetters) \cup Range(UpperLetters) \cup Range(DigitChars) \cup {"_"}

\* re.sub(r'[^\w\s-]', '', s)
remove_special(s) ==
  SelectSeq(s, LAMBDA c : is_word_char(c) \/ isspace(c) \/ c = "-")

is_sep(c) == isspace(c) \/ c = "-"

\* re.sub(r'[-\s]+', '_', s)
collapse_separators(s) ==
  LET marked == [i \in 1..Len(s) |->
                   [c |-> s[i], first |-> (i = 1) \/ ~is_sep(s[i-1])]]
      kept   == SelectSeq(marked, LAMBDA m : ~is_sep(m.c) \/ m.first)
  IN  [i \in 1..Len(kept) |-> IF is_sep(kept[i].c) THEN "_" ELSE kept[i].c]

----------------------------------------------------------------------------
(* Exceptions *)

\* the classes an exception class derives from (itself excluded)
ExcBases ==
  [c \in {"AuthenticationError", "RateLimitError", "BadRequestError", "APIError",
          "RuntimeError",
          "TypeError", "ValueError", "IndexError", "ImageError",
          "HTTPError", "ConnectionError", "RequestException",
          "FileNotFoundError", "PermissionError", "NotADirectoryError",
          "IsADirectoryError", "OSError", "Exception"} |->
     CASE c \in {"AuthenticationError", "RateLimitError", "BadRequestError"} ->
            {"APIError", "Exception"}
       [] c \in {"HTTPError", "ConnectionError"} -> {"RequestException", "OSError", "Exception"}
       [] c = "RequestException" -> {"OSError", "Exception"}
       [] c \in {"FileNotFoundError", "PermissionError", "NotADirectoryError",
                 "IsADirectoryError"} -> {"OSError", "Exception"}
       [] c = "Exception" -> {}
       [] OTHER -> {"Exception"}]

isinstance(exc, cls) == exc.cls = cls \/ cls \in ExcBases[exc.cls]

\* the index of the first except clause that catches exc, 0 when none does
first_handler(handlers, exc) ==
  IF \E i \in 1..Len(handlers) : isinstance(exc, handlers[i])
  THEN CHOOSE i \in 1..Len(handlers) :
         isinstance(exc, handlers[i]) /\ \A j \in 1..(i-1) : ~isinstance(exc, handlers[j])
  ELSE 0

\* an exception object; str(e) is its text
Raised(cls, text) == [cls |-> cls, code |-> "", text |-> text, details |-> <<>>]

ImageError(code, details) ==
  [cls |-> "ImageError", code |-> code, text |-> <<>>, details |-> details]

\* a completion of a method: it returned a value or raised an exception; log
\* is the sequence of outside effects (requests, directory and file writes)
Return(value, log) == [kind |-> "return", value |-> value, log |-> log]

Raise(exc, log) == [kind |-> "raise", exc |-> exc, log |-> log]

----------------------------------------------------------------------------
(* The provider, as ImageGenerationClient sees it *)

ModelNames == {"dall-e-3", "dall-e-2"}

\* ImageOptions() with no arguments
DefaultOptions ==
  [model |-> "dall-e-3", size |-> "1024x1024", quality |-> Some("standard"),
   style |-> Some("vivid"), response_format |-> "url", n |-> 1]

\* texts a provider failure can carry
MsgPlain == <<"b","a","d"," ","r","e","q">>

MsgPolicy == <<"C","o","n","t","e","n","t"," ","P","O","L","I","C","Y">>

MsgSafety == <<"o","u","r"," ","S","a","f","e","t","y">>

ProviderFailures ==
  {Raised(c, m) : c \in {"AuthenticationError", "RateLimitError", "BadRequestError",
                          "APIError", "RuntimeError"},
                  m \in {MsgPlain, MsgPolicy, MsgSafety}}

\* response objects: an image object has an attribute exactly when the record
\* has the field; the response has created exactly when the record has it
ProviderResponses ==
  { [created |-> "1700000000",
     data |-> << [url |-> Some("https://img/1"), b64_json |-> None, revised_prompt |-> None] >>],
    [created |-> "1700000000",
     data |-> << [url |-> None, b64_json |-> Some("aGk="), revised_prompt |-> Some("rev")] >>],
    [created |-> "1700000000",
     data |-> << [url |-> None, b64_json |-> None, revised_prompt |-> None] >>],
    [data |-> << [url |-> Some("https://img/1")] >>],
    [created |-> "1700000000", data |-> << >>] }

\* the answers of self.client.images.generate(**payload)
images_generate(payload) ==
  {[kind |-> "ok", response |-> r] : r \in ProviderResponses}
  \cup {[kind |-> "raise", exc |-> e] : e \in ProviderFailures}

----------------------------------------------------------------------------
(* ImageGenerationClient *)

MaxPromptLen == 4000

\* _construct_payload that sends quality and style to every model
_construct_payload_any_model(prompt, options) ==
  LET keys == {"model", "prompt", "size", "response_format", "n"}
              \cup (IF truthy(options.quality) THEN {"quality"} ELSE {})
              \cup (IF truthy(options.style) THEN {"style"} ELSE {})
  IN  [k \in keys |->
         CASE k = "model"           -> options.model
           [] k = "prompt"          -> prompt
           [] k = "size"            -> options.size
           [] k = "response_format" -> options.response_format
           [] k = "n"               -> options.n
           [] k = "quality"         -> the(options.quality)
           [] k = "style"           -> the(options.style)]

_construct_payload(prompt, options) ==
  LET with_quality == options.model = "dall-e-3" /\ truthy(options.quality)
      with_style   == options.model = "dall-e-3" /\ truthy(options.style)
      keys == {"model", "prompt", "size", "response_format", "n"}
              \cup (IF with_quality THEN {"quality"} ELSE {})
              \cup (IF with_style THEN {"style"} ELSE {})
  IN  [k \in keys |->
         CASE k = "model"           -> options.model
           [] k = "prompt"          -> prompt
           [] k = "size"            -> options.size
           [] k = "response_format" -> options.response_format
           [] k = "n"               -> options.n
           [] k = "quality"         -> the(options.quality)
           [] k = "style"           -> the(options.style)]

_response_to_dict(response) ==
  [created |-> IF "created" \in DOMAIN response THEN response.created ELSE "0",
   data    |-> [i \in 1..Len(response.data) |->
                  [k \in DOMAIN response.data[i] \cap {"url", "b64_json", "revised_prompt"} |->
                     response.data[i][k]]]]

\* client_handlers with the generic API clause tried first
client_handlers_api_first ==
  <<"APIError", "AuthenticationError", "RateLimitError", "Exception">>

\* the except clauses of ImageGenerationClient.generate_image, in order
client_handlers == <<"AuthenticationError", "RateLimitError", "APIError", "Exception">>

\* the ImageError an except clause of ImageGenerationClient.generate_image raises
client_map_error(e) ==
  LET h == first_handler(client_handlers, e)
      caught == IF h = 0 THEN "" ELSE client_handlers[h]
      error_msg == lower(e.text)
      details == [original_error |-> e.text]
  IN  CASE caught = "AuthenticationError" -> ImageError("AUTHENTICATION_ERROR", details)
        [] caught = "RateLimitError" -> ImageError("RATE_LIMIT_ERROR", details)
        [] caught = "APIError" ->
             IF contains(error_msg, <<"c","o","n","t","e","n","t"," ","p","o","l","i","c","y">>)
                \/ contains(error_msg, <<"s","a","f","e","t","y">>)
             THEN ImageError("CONTENT_POLICY_ERROR", details)
             ELSE ImageError("API_ERROR", details)
        [] caught = "Exception" -> ImageError("UNKNOWN_ERROR", details)
        [] OTHER -> e

\* generate_image that repeats a failed provider call once
client_generate_image_retry(prompt, options) ==
  IF Len(prompt) = 0 \/ Len(strip(prompt)) = 0
  THEN {Raise(Raised("ValueError", <<"Prompt cannot be empty">>), <<>>)}
  ELSE IF Len(prompt) > MaxPromptLen
  THEN {Raise(Raised("ValueError", <<"Prompt too long (max 4000 characters)">>), <<>>)}
  ELSE
    LET opts    == IF options = None THEN DefaultOptions ELSE the(options)
        payload == _construct_payload(prompt, opts)
        request == [e |-> "provider_request", payload |-> payload]
        attempt(before, a) ==
          IF a.kind = "ok"
          THEN Return(_response_to_dict(a.response),
                      before \o <<request, [e |-> "provider_response", response |-> a.response]>>)
          ELSE Raise(client_map_error(a.exc),
                     before \o <<request, [e |-> "provider_error", exc |-> a.exc]>>)
    IN  UNION { IF a.kind = "ok"
                THEN {attempt(<<>>, a)}
                ELSE {attempt(<<request, [e |-> "provider_error", exc |-> a.exc]>>, b)
                      : b \in images_generate(payload)}
                : a \in images_generate(payload) }

\* ImageGenerationClient.generate_image(prompt, options); options is Optional
client_generate_image(prompt, options) ==
  IF Len(prompt) = 0 \/ Len(strip(prompt)) = 0
  THEN {Raise(Raised("ValueError", <<"Prompt cannot be empty">>), <<>>)}
  ELSE IF Len(prompt) > MaxPromptLen
  THEN {Raise(Raised("ValueError", <<"Prompt too long (max 4000 characters)">>), <<>>)}
  ELSE
    LET opts    == IF options = None THEN DefaultOptions ELSE the(options)
        payload == _construct_payload(prompt, opts)
        request == [e |-> "provider_request", payload |-> payload]
    IN  { IF a.kind = "ok"
          THEN Return(_response_to_dict(a.response),
                      <<request, [e |-> "provider_response", response |-> a.response]>>)
          ELSE Raise(client_map_error(a.exc),
                     <<request, [e |-> "provider_error", exc |-> a.exc]>>)
          : a \in images_generate(payload) }

----------------------------------------------------------------------------
(* The file system, the download endpoint and the clock *)

\* os.path.join(save_dir, filename): filename has no separator
path_join(dir, filename) == dir \o <<filename>>

\* os.path.dirname(path)
path_dirname(path) == SubSeq(path, 1, Len(path) - 1)

Prefixes(path) == {SubSeq(path, 1, n) : n \in 1..Len(path)}

EmptyFs == [files |-> <<>>, dirs |-> {}]

Contents == {<<k>> : k \in 1..NumContents}

DownloadTimeout == 30

\* the answers of requests.get(url, timeout=30)
requests_get(url, timeout) ==
  {[kind |-> "ok", status_code |-> 200, content |-> c] : c \in Contents}
  \cup {[kind |-> "ok", status_code |-> 404, content |-> <<>>]}
  \cup {[kind |-> "raise", exc |-> Raised("ConnectionError", <<"connection refused">>)]}

\* what the operating system does to the directory and file operations of one
\* download_and_save_image call
OsAnswers == {"ok", "mkdir_denied", "open_denied", "write_failed"}

\* a completion of an operating system call: the file system after it
OsReturn(fsys, log) == [kind |-> "return", fs |-> fsys, log |-> log]

OsRaise(exc, fsys, log) == [kind |-> "raise", exc |-> exc, fs |-> fsys, log |-> log]

\* os.makedirs(dir, exist_ok=True)
os_makedirs(fsys, dir, os) ==
  IF dir = <<>>
  THEN OsRaise(Raised("FileNotFoundError", <<"No such file or directory: ''">>), fsys, <<>>)
  ELSE IF \E q \in Prefixes(dir) : q \in DOMAIN fsys.files
  THEN OsRaise(Raised("NotADirectoryError", <<"Not a directory">>), fsys, <<>>)
  ELSE IF dir \in fsys.dirs
  THEN OsReturn(fsys, <<>>)
  ELSE IF os = "mkdir_denied"
  THEN OsRaise(Raised("PermissionError", <<"Permission denied">>), fsys, <<>>)
  ELSE OsReturn([fsys EXCEPT !.dirs = @ \cup Prefixes(dir)],
                <<[e |-> "makedirs", path |-> dir]>>)

put_file(files, path, data) ==
  [q \in DOMAIN files \cup {path} |-> IF q = path THEN data ELSE files[q]]

\* with open(path, 'wb') as f: f.write(data)
write_file(fsys, path, data, os) ==
  IF path \in fsys.dirs
  THEN OsRaise(Raised("IsADirectoryError", <<"Is a directory">>), fsys, <<>>)
  ELSE IF os = "open_denied"
  THEN OsRaise(Raised("PermissionError", <<"Permission denied">>), fsys, <<>>)
  ELSE IF os = "write_failed"
  THEN OsRaise(Raised("OSError", <<"No space left on device">>),
               [fsys EXCEPT !.files = put_file(@, path, <<>>)],
               <<[e |-> "open", path |-> path]>>)
  ELSE OsReturn([fsys EXCEPT !.files = put_file(@, path, data)],
                <<[e |-> "open", path |-> path],
                  [e |-> "write", path |-> path, data |-> data]>>)

\* the values datetime.now() can have
Clocks == {[year |-> 2025, month |-> 1, day |-> 1, hour |-> 12, minute |-> 0, second |-> 5]}

pad2(n) == <<DigitChars[(n \div 10) + 1], DigitChars[(n % 10) + 1]>>

pad4(n) == pad2(n \div 100) \o pad2(n % 100)

\* now.strftime("%Y%m%d_%H%M%S")
strftime(now) ==
  pad4(now.year) \o pad2(now.month) \o pad2(now.day) \o <<"_">>
  \o pad2(now.hour) \o pad2(now.minute) \o pad2(now.second)

----------------------------------------------------------------------------
(* ImageResponseParser and ImageResult *)

GenerationIds == {<<"gen-abc123">>}

field(d, k) == IF k \in DOMAIN d THEN d[k] ELSE None

\* ImageResponseParser.parse(raw_response, prompt): the result is built from
\* the first image entry; a response with no entry is a failure that is not
\* an ImageError
parse(raw_response, prompt) ==
  IF Len(raw_response.data) = 0
  THEN {Raise(Raised("ValueError", <<"No image data in response">>), <<>>)}
  ELSE {Return([generation_id  |-> g,
                prompt         |-> prompt,
                image_url      |-> field(raw_response.data[1], "url"),
                image_base64   |-> field(raw_response.data[1], "b64_json"),
                revised_prompt |-> field(raw_response.data[1], "revised_prompt"),
                file_path      |-> None,
                image_data     |-> None,
                created_at     |-> raw_response.created], <<>>)
        : g \in GenerationIds}

----------------------------------------------------------------------------
(* ImageGenerationService *)

DefaultSaveDir == << <<"generated_images">> >>

MaxFilenamePrompt == 50

problematic_terms ==
  {<<"v","i","o","l","e","n","c","e">>, <<"g","o","r","e">>,
   <<"e","x","p","l","i","c","i","t">>}

\* validate_prompt that compares the terms with the prompt as typed
validate_prompt_case_sensitive(prompt) ==
  IF Len(prompt) = 0 THEN FALSE
  ELSE IF Len(strip(prompt)) = 0 THEN FALSE
  ELSE IF Len(prompt) > MaxPromptLen THEN FALSE
  ELSE IF \E term \in problematic_terms : contains(prompt, term) THEN FALSE
  ELSE TRUE

\* validate_prompt without its length check
validate_prompt_no_length(prompt) ==
  IF Len(prompt) = 0 THEN FALSE
  ELSE IF Len(strip(prompt)) = 0 THEN FALSE
  ELSE IF \E term \in problematic_terms : contains(lower(prompt), term) THEN FALSE
  ELSE TRUE

validate_prompt(prompt) ==
  IF Len(prompt) = 0 THEN FALSE
  ELSE IF Len(strip(prompt)) = 0 THEN FALSE
  ELSE IF Len(prompt) > MaxPromptLen THEN FALSE
  ELSE IF \E term \in problematic_terms : contains(lower(prompt), term) THEN FALSE
  ELSE TRUE

\* _generate_safe_filename that trims trailing underscores of every prompt
_generate_safe_filename_always_trim(prompt, generation_id, now) ==
  LET cleaned == collapse_separators(remove_special(lower(prompt)))
      clean_prompt == IF Len(cleaned) > MaxFilenamePrompt
                      THEN rstrip_underscore(SubSeq(cleaned, 1, MaxFilenamePrompt))
                      ELSE rstrip_underscore(cleaned)
  IN  clean_prompt \o <<"_">> \o strftime(now) \o <<"_">> \o generation_id \o <<".png">>

\* _generate_safe_filename(prompt, generation_id), now being datetime.now()
_generate_safe_filename(prompt, generation_id, now) ==
  LET cleaned == collapse_separators(remove_special(lower(prompt)))
      clean_prompt == IF Len(cleaned) > MaxFilenamePrompt
                      THEN rstrip_underscore(SubSeq(cleaned, 1, MaxFilenamePrompt))
                      ELSE cleaned
  IN  clean_prompt \o <<"_">> \o strftime(now) \o <<"_">> \o generation_id \o <<".png">>

\* a completion of a service method: fs is the file system after it and obj
\* the ImageResult object it worked on, as the method left it
SvcReturn(value, fsys, log) ==
  [kind |-> "return", value |-> value, obj |-> value, fs |-> fsys, log |-> log]

SvcRaise(exc, obj, fsys, log) ==
  [kind |-> "raise", exc |-> exc, obj |-> obj, fs |-> fsys, log |-> log]

\* download_handlers with the operating system clause tried first
download_handlers_os_first == <<"OSError", "RequestException">>

\* the except clauses of download_and_save_image, in order
download_handlers == <<"RequestException", "OSError">>

\* the exception that leaves download_and_save_image when e is raised in its try
download_map_error(e, result, save_path) ==
  LET h == first_handler(download_handlers, e)
      caught == IF h = 0 THEN "" ELSE download_handlers[h]
  IN  CASE caught = "RequestException" ->
             ImageError("DOWNLOAD_ERROR", [url |-> result.image_url, error |-> e.text])
        [] caught = "OSError" ->
             ImageError("SAVE_ERROR", [save_path |-> save_path, error |-> e.text])
        [] OTHER -> e

\* save_downloaded that does not record the file path on the result
save_downloaded_no_path(result, save_path, fsys, content, os) ==
  LET got   == [result EXCEPT !.image_data = Some(content)]
      made  == os_makedirs(fsys, path_dirname(save_path), os)
      wrote == write_file(made.fs, save_path, the(got.image_data), os)
  IN  IF made.kind = "raise"
      THEN SvcRaise(download_map_error(made.exc, got, save_path), got, made.fs,
                    made.log \o <<[e |-> "os_error", exc |-> made.exc]>>)
      ELSE IF wrote.kind = "raise"
      THEN SvcRaise(download_map_error(wrote.exc, got, save_path), got, wrote.fs,
                    made.log \o wrote.log \o <<[e |-> "os_error", exc |-> wrote.exc]>>)
      ELSE SvcReturn(got, wrote.fs, made.log \o wrote.log)

\* the part of download_and_save_image that follows a successful GET
save_downloaded(result, save_path, fsys, content, os) ==
  LET got   == [result EXCEPT !.image_data = Some(content)]
      made  == os_makedirs(fsys, path_dirname(save_path), os)
      wrote == write_file(made.fs, save_path, the(got.image_data), os)
  IN  IF made.kind = "raise"
      THEN SvcRaise(download_map_error(made.exc, got, save_path), got, made.fs,
                    made.log \o <<[e |-> "os_error", exc |-> made.exc]>>)
      ELSE IF wrote.kind = "raise"
      THEN SvcRaise(download_map_error(wrote.exc, got, save_path), got, wrote.fs,
                    made.log \o wrote.log \o <<[e |-> "os_error", exc |-> wrote.exc]>>)
      ELSE SvcReturn([got EXCEPT !.file_path = Some(save_path)], wrote.fs,
                     made.log \o wrote.log)

\* download_with_url that repeats a failed GET once
download_with_url_retry(result, save_path, fsys) ==
  LET get == [e |-> "http_get", url |-> the(result.image_url)]
      answers == requests_get(the(result.image_url), DownloadTimeout)
      error_of(a) == IF a.kind = "raise" THEN a.exc
                     ELSE Raised("HTTPError", <<"404 Client Error">>)
      is_failure(a) == a.kind = "raise" \/ a.status_code >= 400
      attempt(before, a) ==
        IF is_failure(a)
        THEN {SvcRaise(download_map_error(error_of(a), result, save_path), result, fsys,
                       before \o <<get, [e |-> "http_error", exc |-> error_of(a)]>>)}
        ELSE {[c EXCEPT !.log = before \o <<get, [e |-> "http_response",
                                                  content |-> a.content]>> \o @]
              : c \in {save_downloaded(result, save_path, fsys, a.content, os)
                       : os \in OsAnswers}}
  IN  UNION { IF is_failure(a)
              THEN UNION {attempt(<<get, [e |-> "http_error", exc |-> error_of(a)]>>, b)
                          : b \in answers}
              ELSE attempt(<<>>, a)
              : a \in answers }

\* download_and_save_image from its try statement on: the url is present
download_with_url(result, save_path, fsys) ==
  LET get == [e |-> "http_get", url |-> the(result.image_url)]
      failed(exc) ==
        SvcRaise(download_map_error(exc, result, save_path), result, fsys,
                 <<get, [e |-> "http_error", exc |-> exc]>>)
      saved(content, os) ==
        LET c == save_downloaded(result, save_path, fsys, content, os)
        IN  [c EXCEPT !.log = <<get, [e |-> "http_response", content |-> content]>> \o @]
  IN  UNION { IF a.kind = "raise"
              THEN {failed(a.exc)}
              ELSE IF a.status_code >= 400
              THEN {failed(Raised("HTTPError", <<"404 Client Error">>))}
              ELSE {saved(a.content, os) : os \in OsAnswers}
              : a \in requests_get(the(result.image_url), DownloadTimeout) }

\* download_and_save_image that asks for the image before it looks at the url
download_and_save_image_get_first(result, save_path, fsys) ==
  IF ~truthy(result.image_url)
  THEN LET exc == Raised("RequestException", <<"Invalid URL 'None'">>)
       IN  {SvcRaise(download_map_error(exc, result, save_path), result, fsys,
                     <<[e |-> "http_get", url |-> ""], [e |-> "http_error", exc |-> exc]>>)}
  ELSE download_with_url(result, save_path, fsys)

\* ImageGenerationService.download_and_save_image(result, save_path)
download_and_save_image(result, save_path, fsys) ==
  IF ~truthy(result.image_url)
  THEN {SvcRaise(ImageError("DOWNLOAD_ERROR", [result |-> result]), result, fsys, <<>>)}
  ELSE download_with_url(result, save_path, fsys)

\* service_handlers with the catch-all clause tried first
service_handlers_catch_all_first == <<"Exception", "ImageError">>

\* the except clauses of ImageGenerationService.generate_image, in order
service_handlers == <<"ImageError", "Exception">>

\* the exception that leaves generate_image when e is raised in its try
service_map_error(e) ==
  LET h == first_handler(service_handlers, e)
      caught == IF h = 0 THEN "" ELSE service_handlers[h]
  IN  CASE caught = "ImageError" -> e
        [] caught = "Exception" -> ImageError("GENERATION_FAILED", [original_error |-> e.text])
        [] OTHER -> e

\* steps 4 and 5 of generate_image: parse, then download and save
parse_and_save(raw_response, prompt, auto_save, save_dir, fsys) ==
  UNION { IF p.kind = "raise"
          THEN {SvcRaise(p.exc, None, fsys, <<>>)}
          ELSE IF auto_save /\ truthy(p.value.image_url)
          THEN UNION { download_and_save_image(
                         p.value,
                         path_join(save_dir,
                                   _generate_safe_filename(prompt, p.value.generation_id, now)),
                         fsys)
                       : now \in Clocks }
          ELSE {SvcReturn(p.value, fsys, <<>>)}
          : p \in parse(raw_response, prompt) }

\* the try block of generate_image
generate_image_try(prompt, options, auto_save, save_dir, fsys) ==
  UNION { IF c.kind = "raise"
          THEN {SvcRaise(c.exc, None, fsys, c.log)}
          ELSE {[d EXCEPT !.log = c.log \o @]
                : d \in parse_and_save(c.value, prompt, auto_save, save_dir, fsys)}
          : c \in client_generate_image(prompt, Some(options)) }

\* ImageGenerationService.generate_image(prompt, options, auto_save, save_dir)
generate_image(prompt, options, auto_save, save_dir, fsys) ==
  IF ~validate_prompt(prompt)
  THEN {SvcRaise(Raised("ValueError",
                        <<"Invalid prompt: must be non-empty and under 4000 characters">>),
                 None, fsys, <<>>)}
  ELSE
    LET opts == IF options = None THEN DefaultOptions ELSE the(options)
    IN  { IF b.kind = "raise" THEN [b EXCEPT !.exc = service_map_error(@)] ELSE b
          : b \in generate_image_try(prompt, opts, auto_save, save_dir, fsys) }

\* ImageGenerationService.generate_and_save(prompt, save_path, options)
generate_and_save(prompt, save_path, options, fsys) ==
  UNION { IF g.kind = "raise"
          THEN {g}
          ELSE {[d EXCEPT !.log = g.log \o @]
                : d \in download_and_save_image(g.value, save_path, g.fs)}
          : g \in generate_image(prompt, options, TRUE, DefaultSaveDir, fsys) }

----------------------------------------------------------------------------
(* The caller: one public operation at a time *)

PromptEmpty == <<>>

PromptBlank == <<" ", "\t", " ">>

PromptLong == [i \in 1..(MaxPromptLen + 1) |-> "a"]

PromptDenied == <<"s","o","m","e"," ","G","o","R","E">>

PromptCat == <<"A"," ","c","a","t","!">>

Prompts == {PromptEmpty, PromptBlank, PromptLong, PromptDenied, PromptCat}

OptionChoices ==
  { None,
    Some([model |-> "dall-e-2", size |-> "512x512", quality |-> Some("hd"),
          style |-> Some("vivid"), response_format |-> "url", n |-> 1]),
    Some([model |-> "dall-e-3", size |-> "1024x1024", quality |-> None,
          style |-> Some("natural"), response_format |-> "b64_json", n |-> 1]) }

SaveDirs == {DefaultSaveDir, <<>>}

SavePaths == { << <<"out">>, <<"cat.png">> >>, << <<"cat.png">> >> }

NoCall == [op |-> "none"]

Init ==
  /\ fs = EmptyFs
  /\ held = None
  /\ pc = "idle"
  /\ call = NoCall

\* the caller calls ImageGenerationClient.generate_image
ClientGenerateImage ==
  /\ pc = "idle"
  /\ \E prompt \in Prompts, options \in OptionChoices :
       \E c \in client_generate_image(prompt, options) :
          call' = [op |-> "client.generate_image", prompt |-> prompt, options |-> options,
                   fs_before |-> fs, done |-> c]
  /\ pc' = "done"
  /\ UNCHANGED <<fs, held>>

\* the caller calls ImageGenerationService.generate_image
GenerateImage ==
  /\ pc = "idle"
  /\ \E prompt \in Prompts, options \in OptionChoices, auto_save \in BOOLEAN,
        save_dir \in SaveDirs :
       \E c \in generate_image(prompt, options, auto_save, save_dir, fs) :
          /\ call' = [op |-> "generate_image", prompt |-> prompt, options |-> options,
                      auto_save |-> auto_save, save_dir |-> save_dir,
                      fs_before |-> fs, done |-> c]
          /\ fs' = c.fs
          /\ held' = IF c.kind = "return" THEN Some(c.value) ELSE held
  /\ pc' = "done"

\* the caller calls ImageGenerationService.generate_and_save
GenerateAndSave ==
  /\ pc = "idle"
  /\ \E prompt \in Prompts, save_path \in SavePaths, options \in OptionChoices :
       \E c \in generate_and_save(prompt, save_path, options, fs) :
          /\ call' = [op |-> "generate_and_save", prompt |-> prompt, options |-> options,
                      save_path |-> save_path, fs_before |-> fs, done |-> c]
          /\ fs' = c.fs
          /\ held' = IF c.kind = "return" THEN Some(c.value) ELSE held
  /\ pc' = "done"

\* the caller calls ImageGenerationService.download_and_save_image on the
\* ImageResult it holds; the object is changed in place
DownloadAndSaveImage ==
  /\ pc = "idle"
  /\ held # None
  /\ \E save_path \in SavePaths :
       \E c \in download_and_save_image(the(held), save_path, fs) :
          /\ call' = [op |-> "download_and_save_image", result |-> the(held),
                      save_path |-> save_path, fs_before |-> fs, done |-> c]
          /\ fs' = c.fs
          /\ held' = Some(c.obj)
  /\ pc' = "done"

\* the caller takes the outcome of the call
CallerContinues ==
  /\ pc = "done"
  /\ pc' = "idle"
  /\ call' = NoCall
  /\ UNCHANGED <<fs, held>>

Next ==
  \/ ClientGenerateImage
  \/ GenerateImage
  \/ GenerateAndSave
  \/ DownloadAndSaveImage
  \/ CallerContinues

Spec == Init /\ [][Next]_vars

----------------------------------------------------------------------------
(* validate_prompt on its own: the caller calls it on one prompt *)

\* every string over the alphabet of at most MaxShortPrompt characters
ShortPrompts(alphabet) == UNION {[1..n -> alphabet] : n \in 0..MaxShortPrompt}

\* n times the letter a, followed by tail
Pad(n, tail) == [i \in 1..n |-> "a"] \o tail

ValidatePrompts ==
  ShortPrompts({"g", "G", "o", "r", "e", " "})
  \cup { Pad(MaxPromptLen, <<>>), Pad(MaxPromptLen + 1, <<>>),
         Pad(MaxPromptLen - 4, <<"G","O","R","E">>),
         Pad(MaxPromptLen - 3, <<"g","o","r","e">>),
         [i \in 1..(MaxPromptLen + 1) |-> " "],
         <<"n","o"," ","V","i","o","l","e","n","c","e"," ","!">>,
         <<"E","X","P","L","I","C","I","T">>,
         <<"\t","e","x","p","l","i","c","i","t","\n">>,
         <<"v","i","o","l","e","n","t">>,
         <<"\t","\n"," ">> }

InitValidate ==
  /\ fs = EmptyFs
  /\ held = None
  /\ pc = "idle"
  /\ call \in {[op |-> "input", prompt |-> p] : p \in ValidatePrompts}

\* the caller calls ImageGenerationService.validate_prompt
ValidatePrompt ==
  /\ pc = "idle"
  /\ call.op = "input"
  /\ call' = [op |-> "validate_prompt", prompt |-> call.prompt,
              returned |-> validate_prompt(call.prompt)]
  /\ pc' = "done"
  /\ UNCHANGED <<fs, held>>

NextValidate == ValidatePrompt

SpecValidate == InitValidate /\ [][NextValidate]_vars

----------------------------------------------------------------------------
(* _generate_safe_filename on its own: one prompt, generation id and time *)

FilenamePrompts ==
  ShortPrompts({"A", "1", "_", "-", " ", "!"})
  \cup { Pad(MaxFilenamePrompt, <<>>), Pad(MaxFilenamePrompt + 10, <<>>),
         Pad(MaxFilenamePrompt - 1, <<" ", "b">>),
         Pad(MaxFilenamePrompt - 1, <<"_", "_", "b">>),
         Pad(MaxFilenamePrompt - 2, <<"-", "-", " ", "X">>),
         Pad(MaxFilenamePrompt - 3, <<"!", " ", "\t", "-", "Y", "?", "z", "z">>),
         <<"A"," ","c","a","t"," ","w","e","a","r","i","n","g"," ","a"," ",
           "s","p","a","c","e"," ","h","e","l","m","e","t","!">> }

FilenameIds == {<<"gen-abc123">>, <<"7">>}

FilenameClocks ==
  Clocks \cup {[year |-> 1999, month |-> 12, day |-> 31,
                hour |-> 23, minute |-> 59, second |-> 59]}

InitFilename ==
  /\ fs = EmptyFs
  /\ held = None
  /\ pc = "idle"
  /\ call \in {[op |-> "input", prompt |-> p, generation_id |-> g, now |-> t]
               : p \in FilenamePrompts, g \in FilenameIds, t \in FilenameClocks}

\* the service calls _generate_safe_filename while the clock shows call.now
GenerateSafeFilename ==
  /\ pc = "idle"
  /\ call.op = "input"
  /\ call' = [op |-> "_generate_safe_filename", prompt |-> call.prompt,
              generation_id |-> call.generation_id, now |-> call.now,
              returned |-> _generate_safe_filename(call.prompt, call.generation_id, call.now)]
  /\ pc' = "done"
  /\ UNCHANGED <<fs, held>>

NextFilename == GenerateSafeFilename

SpecFilename == InitFilename /\ [][NextFilename]_vars

----------------------------------------------------------------------------
(* Properties *)

Done(op) == pc = "done" /\ call.op = op

Count(log, e) == Len(SelectSeq(log, LAMBDA x : x.e = e))

AllBlank(prompt) == \A i \in 1..Len(prompt) : isspace(prompt[i])

HasDeniedTerm(prompt) ==
  \E term \in {<<"v","i","o","l","e","n","c","e">>, <<"g","o","r","e">>,
               <<"e","x","p","l","i","c","i","t">>} :
     contains(lower(prompt), term)

InvalidPrompt(prompt) ==
  Len(prompt) = 0 \/ AllBlank(prompt) \/ Len(prompt) > 4000 \/ HasDeniedTerm(prompt)

\* C1: Service.generate_image on a prompt that is empty, whitespace-only,
\* longer than 4000 characters or holds a denylisted term raises ValueError
\* (not an ImageError), and in that call no provider request and no download
\* GET is issued and no file is written.
C1_InvalidPromptRejected ==
  (Done("generate_image") /\ InvalidPrompt(call.prompt)) =>
     /\ call.done.kind = "raise"
     /\ call.done.exc.cls = "ValueError"
     /\ Count(call.done.log, "provider_request") = 0
     /\ Count(call.done.log, "http_get") = 0
     /\ Count(call.done.log, "open") = 0
     /\ fs = call.fs_before

C1_Witness ==
  /\ Done("generate_image")
  /\ Len(call.prompt) > 4000
  /\ call.done.kind = "raise"

HasPolicyMarker(text) ==
  \/ contains(lower(text), <<"c","o","n","t","e","n","t"," ","p","o","l","i","c","y">>)
  \/ contains(lower(text), <<"s","a","f","e","t","y">>)

\* the code the priority order of the claim gives a provider failure x
ExpectedClientCode(x) ==
  IF x.cls = "AuthenticationError" THEN "AUTHENTICATION_ERROR"
  ELSE IF x.cls = "RateLimitError" THEN "RATE_LIMIT_ERROR"
  ELSE IF isinstance(x, "APIError") /\ HasPolicyMarker(x.text) THEN "CONTENT_POLICY_ERROR"
  ELSE IF isinstance(x, "APIError") THEN "API_ERROR"
  ELSE "UNKNOWN_ERROR"

\* C2: when the provider call fails, Client.generate_image raises an ImageError
\* whose code follows the priority order authentication, rate limit, content
\* policy marker in a generic API failure, generic API failure, anything else;
\* the details hold the text of the provider's failure.
C2_ClientErrorMapping ==
  (/\ Done("client.generate_image")
   /\ Len(call.done.log) = 2
   /\ call.done.log[2].e = "provider_error") =>
     /\ call.done.kind = "raise"
     /\ call.done.exc.cls = "ImageError"
     /\ call.done.exc.code = ExpectedClientCode(call.done.log[2].exc)
     /\ call.done.exc.details.original_error = call.done.log[2].exc.text

C2_Witness ==
  /\ Done("client.generate_image")
  /\ Len(call.done.log) = 2
  /\ call.done.log[2].e = "provider_error"
  /\ call.done.log[2].exc.cls = "AuthenticationError"
  /\ HasPolicyMarker(call.done.log[2].exc.text)
  /\ call.done.exc.code = "AUTHENTICATION_ERROR"

\* C3: every ImageResult that Service.generate_image returns has its image
\* url or its base64 payload populated.
C3_NoEmptySuccess ==
  (Done("generate_image") /\ call.done.kind = "return") =>
     \/ call.done.value.image_url # None
     \/ call.done.value.image_base64 # None

ErrorCodes ==
  {"AUTHENTICATION_ERROR", "RATE_LIMIT_ERROR", "CONTENT_POLICY_ERROR", "API_ERROR",
   "UNKNOWN_ERROR", "DOWNLOAD_ERROR", "SAVE_ERROR", "GENERATION_FAILED"}

\* C4: on a prompt that passed validation Service.generate_image returns or
\* raises an ImageError with one of the eight codes; a failure the client
\* mapped keeps the client's code, a failed GET gives DOWNLOAD_ERROR, a failed
\* directory or file operation gives SAVE_ERROR, and a failure of the parser
\* gives GENERATION_FAILED with the parser's message in the details.
C4_ErrorsPropagateUnchanged ==
  (Done("generate_image") /\ ~InvalidPrompt(call.prompt)) =>
     \/ call.done.kind = "return"
     \/ LET log  == call.done.log
            last == log[Len(log)]
            exc  == call.done.exc
        IN  /\ call.done.kind = "raise"
            /\ exc.cls = "ImageError"
            /\ exc.code \in ErrorCodes
            /\ Len(log) > 0
            /\ CASE last.e = "provider_error" -> exc.code = ExpectedClientCode(last.exc)
                 [] last.e = "http_error"     -> exc.code = "DOWNLOAD_ERROR"
                 [] last.e = "os_error"       -> exc.code = "SAVE_ERROR"
                 [] OTHER -> /\ exc.code = "GENERATION_FAILED"
                             /\ exc.details.original_error = <<"No image data in response">>

C4_Witness ==
  /\ Done("generate_image")
  /\ call.done.kind = "raise"
  /\ call.done.exc.cls = "ImageError"
  /\ call.done.exc.code = "SAVE_ERROR"

\* C5: a generate_and_save call that succeeds issues exactly one download GET,
\* writes exactly one file, the one at save_path, and its download step changes
\* the result once (one downloaded body is stored on it).
C5_SingleDownloadAndWrite ==
  (Done("generate_and_save") /\ call.done.kind = "return") =>
     /\ Count(call.done.log, "http_get") = 1
     /\ Count(call.done.log, "http_response") = 1
     /\ Count(call.done.log, "write") = 1
     /\ \A i \in 1..Len(call.done.log) :
          call.done.log[i].e = "write" => call.done.log[i].path = call.save_path

\* the download and the directory and file operations of a generate_image
\* call all succeeded, for a parsed result that has an image url
AutoSaveSucceeded ==
  /\ Done("generate_image")
  /\ call.auto_save
  /\ Len(call.done.log) >= 4
  /\ call.done.log[2].e = "provider_response"
  /\ truthy(field(call.done.log[2].response.data[1], "url"))
  /\ call.done.log[4].e = "http_response"
  /\ Count(call.done.log, "os_error") = 0

\* C6: when generate_image runs with auto_save, the parsed result has an image
\* url and the download and the write succeed, a file with the downloaded bytes
\* exists at save_dir joined with the computed filename, and the returned
\* result has that path as file_path and those bytes as image_data.
C6_AutoSaveWritesFile ==
  AutoSaveSucceeded =>
     /\ call.done.kind = "return"
     /\ \E now \in Clocks :
          LET path == path_join(call.save_dir,
                                _generate_safe_filename(call.prompt,
                                                        call.done.value.generation_id, now))
              bytes == call.done.log[4].content
          IN  /\ path \in DOMAIN fs.files
              /\ fs.files[path] = bytes
              /\ call.done.value.file_path = Some(path)
              /\ call.done.value.image_data = Some(bytes)

C6_Witness ==
  /\ AutoSaveSucceeded
  /\ call.prompt = PromptCat
  /\ call.done.kind = "return"
  /\ call.done.value.image_data = Some(<<2>>)
  /\ LET name == <<"a","_","c","a","t","_","2","0","2","5","0","1","0","1","_",
                   "1","2","0","0","0","5","_","gen-abc123",".png">>
     IN  /\ << <<"generated_images">>, name >> \in DOMAIN fs.files
         /\ fs.files[<< <<"generated_images">>, name >>] = <<2>>

\* C7: every payload sent to the provider has the keys model, prompt, size,
\* response_format and n, no key other than these and quality and style, and
\* has quality or style only when its model is dall-e-3.
C7_PayloadKeys ==
  pc = "done" =>
     \A i \in 1..Len(call.done.log) :
        call.done.log[i].e = "provider_request" =>
           LET payload == call.done.log[i].payload
           IN  /\ {"model", "prompt", "size", "response_format", "n"} \subseteq DOMAIN payload
               /\ DOMAIN payload \subseteq
                    {"model", "prompt", "size", "response_format", "n", "quality", "style"}
               /\ (DOMAIN payload \cap {"quality", "style"} # {}) => payload.model = "dall-e-3"

C7_Witness ==
  /\ Done("client.generate_image")
  /\ call.options # None
  /\ the(call.options).model = "dall-e-2"
  /\ the(call.options).quality # None
  /\ Len(call.done.log) > 0
  /\ call.done.log[1].e = "provider_request"
  /\ DOMAIN call.done.log[1].payload = {"model", "prompt", "size", "response_format", "n"}

\* C8: download_and_save_image on a result without image url raises
\* DOWNLOAD_ERROR, issues no HTTP request, creates no directory and no file,
\* and leaves file_path and image_data of the result as they were.
C8_MissingUrl ==
  (Done("download_and_save_image") /\ ~truthy(call.result.image_url)) =>
     /\ call.done.kind = "raise"
     /\ call.done.exc.cls = "ImageError"
     /\ call.done.exc.code = "DOWNLOAD_ERROR"
     /\ call.done.log = <<>>
     /\ fs = call.fs_before
     /\ held = Some(call.result)

C8_Witness ==
  /\ Done("download_and_save_image")
  /\ ~truthy(call.result.image_url)
  /\ call.done.kind = "raise"

\* C9: in download_and_save_image with a url, a failed GET (network failure or
\* error status) gives DOWNLOAD_ERROR and creates no directory and no file; a
\* failed directory or file operation, which follows a successful GET, gives
\* SAVE_ERROR.
C9_DownloadVersusSaveError ==
  (Done("download_and_save_image") /\ truthy(call.result.image_url)) =>
     LET log  == call.done.log
         last == log[Len(log)]
     IN  /\ Len(log) >= 2
         /\ last.e = "http_error" =>
              /\ call.done.kind = "raise"
              /\ call.done.exc.cls = "ImageError"
              /\ call.done.exc.code = "DOWNLOAD_ERROR"
              /\ Count(log, "makedirs") = 0
              /\ Count(log, "open") = 0
              /\ fs = call.fs_before
         /\ last.e = "os_error" =>
              /\ call.done.kind = "raise"
              /\ call.done.exc.cls = "ImageError"
              /\ call.done.exc.code = "SAVE_ERROR"
              /\ log[2].e = "http_response"

C9_Witness ==
  /\ Done("download_and_save_image")
  /\ truthy(call.result.image_url)
  /\ call.done.log[Len(call.done.log)].e = "http_error"
  /\ call.done.log[Len(call.done.log)].exc.cls = "HTTPError"
  /\ call.done.exc.code = "DOWNLOAD_ERROR"

Requests(log) == Count(log, "provider_request") + Count(log, "http_get")

\* C10 as stated: every call of a public operation makes at most one outbound
\* network request.
C10_AtMostOneRequest ==
  pc = "done" => Requests(call.done.log) <= 1

\* every request in the log is followed at once by its answer
RequestsCompleted(log) ==
  \A i \in 1..Len(log) :
     /\ log[i].e = "provider_request" =>
          i < Len(log) /\ log[i+1].e \in {"provider_response", "provider_error"}
     /\ log[i].e = "http_get" =>
          i < Len(log) /\ log[i+1].e \in {"http_response", "http_error"}

\* C10 amended: Client.generate_image makes at most one provider request and
\* no GET; download_and_save_image at most one GET and no provider request;
\* Service.generate_image at most one provider request and at most one GET;
\* generate_and_save at most one provider request and at most two GETs; every
\* request is answered before the next one and before the call ends.
C10_RequestsPerOperation ==
  pc = "done" =>
     LET log == call.done.log
         gen == Count(log, "provider_request")
         get == Count(log, "http_get")
     IN  /\ call.op = "client.generate_image"   => gen <= 1 /\ get = 0
         /\ call.op = "download_and_save_image" => gen = 0 /\ get <= 1
         /\ call.op = "generate_image"          => gen <= 1 /\ get <= 1
         /\ call.op = "generate_and_save"       => gen <= 1 /\ get <= 2
         /\ RequestsCompleted(log)

C10_Witness ==
  /\ Done("generate_image")
  /\ call.done.kind = "return"
  /\ Count(call.done.log, "provider_request") = 1
  /\ Count(call.done.log, "http_get") = 1

ClientAccepts(prompt) ==
  Len(prompt) > 0 /\ ~AllBlank(prompt) /\ Len(prompt) <= 4000

\* no request of the kind follows a failure of that kind in the log
NeverRepeated(log, request, failure) ==
  \A i \in 1..Len(log) : \A j \in (i+1)..Len(log) :
     log[i].e = failure => log[j].e # request

\* C11: Client.generate_image on a prompt it accepts invokes the provider
\* exactly once, whether the invocation succeeds or fails; one run of
\* download_and_save_image issues at most one GET (exactly one when the url is
\* present); no provider request follows a failed provider request and no GET
\* follows a failed GET.
C11_NoRetry ==
  pc = "done" =>
     LET log == call.done.log
     IN  /\ (call.op = "client.generate_image" /\ ClientAccepts(call.prompt)) =>
               Count(log, "provider_request") = 1
         /\ call.op = "download_and_save_image" =>
               /\ Count(log, "http_get") <= 1
               /\ truthy(call.result.image_url) => Count(log, "http_get") = 1
         /\ NeverRepeated(log, "provider_request", "provider_error")
         /\ NeverRepeated(log, "http_get", "http_error")

C11_Witness ==
  /\ Done("download_and_save_image")
  /\ Count(call.done.log, "http_get") = 1
  /\ Count(call.done.log, "http_error") = 1
  /\ call.done.kind = "raise"

\* C12: validate_prompt returns a boolean, and TRUE exactly when the prompt is
\* non-empty after trimming, has at most 4000 characters and holds none of
\* violence, gore, explicit in any letter case.
C12_ValidatePrompt ==
  Done("validate_prompt") =>
     /\ call.returned \in BOOLEAN
     /\ call.returned = ~InvalidPrompt(call.prompt)

C12_Witness ==
  /\ Done("validate_prompt")
  /\ call.prompt = <<"G","o","r","e">>
  /\ call.returned = FALSE

IsAlphanumeric(c) ==
  c \in Range(LowerLetters) \cup Range(UpperLetters) \cup Range(DigitChars)

IsSpaceOrHyphen(c) == c \in {" ", "\t", "\n", "-"}

\* the prompt part read left to right: lowercase, drop what is neither
\* alphanumeric, whitespace nor hyphen (nor underscore when keep_underscore),
\* one underscore for each run of whitespace and hyphens
RECURSIVE PromptPart(_, _, _)
PromptPart(s, in_run, keep_underscore) ==
  IF Len(s) = 0 THEN <<>>
  ELSE LET c == lower_char(Head(s))
       IN  IF IsSpaceOrHyphen(c)
           THEN (IF in_run THEN <<>> ELSE <<"_">>) \o PromptPart(Tail(s), TRUE, keep_underscore)
           ELSE IF IsAlphanumeric(c) \/ (keep_underscore /\ c = "_")
           THEN <<c>> \o PromptPart(Tail(s), FALSE, keep_underscore)
           ELSE PromptPart(Tail(s), in_run, keep_underscore)

RECURSIVE TrimTrailing(_)
TrimTrailing(s) ==
  IF Len(s) > 0 /\ s[Len(s)] = "_" THEN TrimTrailing(SubSeq(s, 1, Len(s) - 1)) ELSE s

CutTo(s, n) == IF Len(s) > n THEN SubSeq(s, 1, n) ELSE s

\* YYYYMMDD_HHMMSS of the two clock values
Stamp(now) ==
  IF now.year = 2025
  THEN <<"2","0","2","5","0","1","0","1","_","1","2","0","0","0","5">>
  ELSE <<"1","9","9","9","1","2","3","1","_","2","3","5","9","5","9">>

NameOf(part, now, generation_id) ==
  part \o <<"_">> \o Stamp(now) \o <<"_">> \o generation_id \o <<".png">>

\* C13 as stated: the prompt part has no underscore of the prompt, is cut to 50
\* characters and has its trailing underscores trimmed.
C13_FilenameAsStated ==
  Done("_generate_safe_filename") =>
     call.returned = NameOf(TrimTrailing(CutTo(PromptPart(call.prompt, FALSE, FALSE), 50)),
                            call.now, call.generation_id)

\* C13 amended: an underscore of the prompt is kept, and the prompt part is
\* cut to 50 characters and trimmed of trailing underscores only when it is
\* longer than 50 characters; the name is the prompt part followed by
\* _<YYYYMMDD_HHMMSS>_<generation_id>.png.
C13_FilenameRule ==
  Done("_generate_safe_filename") =>
     LET part == PromptPart(call.prompt, FALSE, TRUE)
     IN  call.returned = NameOf(IF Len(part) > 50 THEN TrimTrailing(CutTo(part, 50)) ELSE part,
                                call.now, call.generation_id)

C13_Witness ==
  /\ Done("_generate_safe_filename")
  /\ call.prompt = <<"A", "_", "-", " ">>
  /\ call.generation_id = <<"7">>
  /\ call.returned = <<"a","_","_","_","1","9","9","9","1","2","3","1","_",
                       "2","3","5","9","5","9","_","7",".png">>

\* the call ended in SAVE_ERROR because the directory name was empty
EndsInMissingDirectory(c) ==
  /\ c.kind = "raise"
  /\ c.exc.cls = "ImageError"
  /\ c.exc.code = "SAVE_ERROR"
  /\ c.log[Len(c.log)].e = "os_error"
  /\ c.log[Len(c.log)].exc.cls = "FileNotFoundError"

GetSucceeded(log, i) == Len(log) >= i /\ log[i].e = "http_response"

\* C14: a download_and_save_image call whose GET succeeds and whose destination
\* has no directory component does not end in SAVE_ERROR for that reason, and
\* when no directory or file operation fails it returns with the downloaded
\* bytes in the file at the destination; the same holds for the download of an
\* auto-save with an empty save_dir.
C14_BareFilenameSaved ==
  /\ (Done("download_and_save_image") /\ path_dirname(call.save_path) = <<>>
        /\ GetSucceeded(call.done.log, 2)) =>
       /\ ~EndsInMissingDirectory(call.done)
       /\ Count(call.done.log, "os_error") = 0 =>
            /\ call.done.kind = "return"
            /\ call.save_path \in DOMAIN fs.files
            /\ fs.files[call.save_path] = call.done.log[2].content
  /\ (Done("generate_image") /\ call.auto_save /\ call.save_dir = <<>>
        /\ GetSucceeded(call.done.log, 4)) =>
       ~EndsInMissingDirectory(call.done)

\* C15: a download_and_save_image call that returns leaves file_path at the
\* destination and image_data equal to the bytes written there; a call that
\* raises leaves file_path and image_data as they were before the call; and a
\* result with a file_path always has image_data.
C15_ResultConsistent ==
  /\ (held # None /\ the(held).file_path # None) => the(held).image_data # None
  /\ Done("download_and_save_image") =>
       IF call.done.kind = "return"
       THEN /\ the(held).file_path = Some(call.save_path)
            /\ \E i \in 1..Len(call.done.log) :
                 /\ call.done.log[i].e = "write"
                 /\ call.done.log[i].path = call.save_path
                 /\ the(held).image_data = Some(call.done.log[i].data)
       ELSE /\ the(held).file_path = call.result.file_path
            /\ the(held).image_data = call.result.image_data

====
